---- MODULE Spec2Model ----
(***************************************************************************)
(* The product page container: the ProductPage component (request          *)
(* lifecycle coordinator), getProductById (fetch orchestrator), the axios  *)
(* instance of services/api.js with its interceptors (transport client)    *)
(* and transformProductResponse (record normalizer).                       *)
(*                                                                         *)
(* Three specifications share the coordinator:                             *)
(*   Spec      - one mounted ProductPage; the target id changes, fetches   *)
(*               complete in any order, the revalidation interval and the  *)
(*               retry timeout fire, the user presses "Try Again", the     *)
(*               component unmounts.  getProductById is represented by its *)
(*               outcomes (record, failure, cancellation).                 *)
(*   SpecStaying - the same page while it stays mounted with one id: every *)
(*               call settles and the timers fire (fairness).              *)
(*   SpecFetch - one fetch followed through the transport interceptors and *)
(*               the attempt loop of getProductById against a scripted     *)
(*               sequence of HTTP answers.                                 *)
(* Three more specifications leave the page out:                           *)
(*   SpecService   - getProductById and getProducts called directly, with  *)
(*                   any id, retries option, signal and server answers.    *)
(*   SpecNormalize - transformPrice, transformProductResponse,             *)
(*                   validateResponse and handleApiError applied to        *)
(*                   bounded sets of inputs.                               *)
(*   SpecBoundary  - the ErrorBoundary around children that may throw      *)
(*                   while they render.                                    *)
(*                                                                         *)
(* JavaScript runs handlers to completion on one thread, and React flushes *)
(* the effects of a commit before it handles the next event, so one action *)
(* is one handler together with the render, effect cleanups and effect     *)
(* bodies it causes.  State updates made inside one handler are batched.   *)
(***************************************************************************)
EXTENDS Integers, Sequences, FiniteSets, TLC

(***************************************************************************)
(* Bounds of the model.                                                    *)
(***************************************************************************)
MaxRequests == 5      \* tokens an event handler may still mint below this
MaxNow == 3           \* readings of Date.now() are 1..MaxNow
CacheTimeoutProp == 2 \* the cacheTimeout prop, in clock units
MaxScript == 3        \* scripted HTTP answers before the server settles
MaxLen == 3           \* characters of a price text given to transformPrice
MaxItems == 3         \* elements of the array a collection fetch receives
MaxRenders == 10      \* render passes of the ErrorBoundary that are followed

(***************************************************************************)
(* JavaScript values.  A value is a record [t, v]: t is the result of      *)
(* typeof (with null and NaN told apart), v the payload.  The text of a    *)
(* price is a sequence of one-character strings so that it can be parsed.  *)
(***************************************************************************)
Undefined == [t |-> "undefined", v |-> 0]
Null == [t |-> "null", v |-> 0]
NaN == [t |-> "NaN", v |-> 0]
Str(s) == [t |-> "string", v |-> s]          \* s: a sequence of characters
Text(s) == Str(IF s = "" THEN << >> ELSE <<s>>)  \* a text kept in one piece
Num(milli) == [t |-> "number", v |-> milli]   \* the number milli / 1000
Obj(nkeys) == [t |-> "object", v |-> nkeys]   \* an object with nkeys own keys
Bool(b) == [t |-> "boolean", v |-> b]

IsNullish(x) == x.t \in {"undefined", "null"}

RECURSIVE SelectChars(_, _)
SelectChars(s, keep) ==
  IF s = << >> THEN << >>
  ELSE IF Head(s) \in keep THEN <<Head(s)>> \o SelectChars(Tail(s), keep)
  ELSE SelectChars(Tail(s), keep)

Digits == <<"0", "1", "2", "3", "4", "5", "6", "7", "8", "9">>
DigitSet == {Digits[i] : i \in 1..10}
DigitVal(c) == (CHOOSE i \in 1..10 : Digits[i] = c) - 1

\* the characters String.replace(/[$\u00a3\u20ac,\s]/g, '') removes; the pound
\* and euro signs are written "GBP" and "EUR"
StrippedChars == {"$", "GBP", "EUR", ",", " "}

RemoveChars(s, drop) == SelectChars(s, {s[i] : i \in 1..Len(s)} \ drop)

RECURSIVE AllDigits(_)
AllDigits(s) == s = << >> \/ (Head(s) \in DigitSet /\ AllDigits(Tail(s)))

PointPositions(s) == {i \in 1..Len(s) : s[i] = "."}

\* /^\d*\.?\d+$/
MatchesDecimal(s) ==
  \/ Len(s) >= 1 /\ AllDigits(s)
  \/ \E p \in PointPositions(s) :
       /\ AllDigits(SubSeq(s, 1, p - 1))
       /\ p < Len(s)
       /\ AllDigits(SubSeq(s, p + 1, Len(s)))

RECURSIVE DigitsToNat(_)
DigitsToNat(s) ==
  IF s = << >> THEN 0
  ELSE DigitsToNat(SubSeq(s, 1, Len(s) - 1)) * 10 + DigitVal(s[Len(s)])

\* parseFloat of a text that matches the pattern, in thousandths; the texts
\* of the model carry at most three fraction digits, so the value is exact
ParseFloatMilli(s) ==
  IF PointPositions(s) = {} THEN DigitsToNat(s) * 1000
  ELSE LET p == CHOOSE q \in PointPositions(s) : TRUE
           frac == SubSeq(s, p + 1, Len(s))
           pad == frac \o [i \in 1..(3 - Len(frac)) |-> "0"]
       IN DigitsToNat(SubSeq(s, 1, p - 1)) * 1000 + DigitsToNat(SubSeq(pad, 1, 3))

RECURSIVE NatToDigits(_)
NatToDigits(n) ==
  IF n < 10 THEN <<Digits[n + 1]>>
  ELSE NatToDigits(n \div 10) \o <<Digits[(n % 10) + 1]>>

\* Number.prototype.toFixed(2) of cents / 100
ToFixed2(cents) ==
  NatToDigits(cents \div 100) \o <<".">> \o
  <<Digits[((cents % 100) \div 10) + 1], Digits[(cents % 10) + 1]>>

Max(a, b) == IF a >= b THEN a ELSE b
Min(a, b) == IF a <= b THEN a ELSE b

\* Math.round(x * 100) for x = milli / 1000 >= 0: to the nearest integer
MathRoundCentsTruncating(milli) == milli \div 10
MathRoundCents(milli) == (milli + 5) \div 10

ZeroPrice == <<"0", ".", "0", "0">>

\* Infinity (what JSON.parse gives for 1e999): a number beyond every finite
\* one of the model; its text is kept in one piece
InfinityMilli == 1000000000
Infinity == Num(InfinityMilli)
InfinityText == <<"Infinity">>

\* Math.round(Math.max(0, price) * 100) / 100, then toFixed(2): toFixed
\* returns String(x) for an x that is not finite
RoundedToFixed2(milli) ==
  IF milli >= InfinityMilli THEN InfinityText
  ELSE ToFixed2(MathRoundCents(Max(0, milli)))

\* transformPrice: the text with exactly two decimals for a raw price value
transformPrice(price) ==
  IF IsNullish(price) \/ (price.t = "object" /\ price.v = 0)
  THEN ZeroPrice
  ELSE
    LET cleanPrice == IF price.t = "string"
                      THEN RemoveChars(price.v, StrippedChars)
                      ELSE << >>
        rejected == price.t = "string" /\ ~MatchesDecimal(cleanPrice)
        parsed == IF price.t = "string" /\ ~rejected
                  THEN Num(ParseFloatMilli(cleanPrice))
                  ELSE price
    IN IF rejected THEN ZeroPrice
       ELSE IF parsed.t # "number" THEN ZeroPrice
       ELSE RoundedToFixed2(parsed.v)

(***************************************************************************)
(* Records.  A raw record is a function from its keys to values; a key     *)
(* that is absent reads as undefined.                                      *)
(***************************************************************************)
CanonicalKeys == {"id", "title", "description", "price", "image", "category"}

Get(data, key) == IF key \in DOMAIN data THEN data[key] ELSE Undefined

\* a ?? b
Coalesce(a, b) == IF IsNullish(a) THEN b ELSE a

\* transformed[key] = value creates an own key, except for "__proto__", which
\* an object inherits as an accessor: the assignment runs the setter
CreatesOwnKey(key) == key # "__proto__"

\* a || b, as transformProductResponseDefaultingFalsy takes its defaults
OrElse(a, b) ==
  IF IsNullish(a) \/ a = Text("") \/ a = Num(0) \/ a = Bool(FALSE) THEN b ELSE a

\* transformProductResponse for a raw record that is a plain object
transformProductResponseDefaultingFalsy(data) ==
  [k \in CanonicalKeys \cup {key \in DOMAIN data : CreatesOwnKey(key)} |->
     CASE k = "id" -> OrElse(Get(data, "id"), Text(""))
       [] k = "title" -> OrElse(Get(data, "title"), Text("Untitled Product"))
       [] k = "description" ->
            OrElse(Get(data, "description"), Text("No description available"))
       [] k = "price" -> Str(transformPrice(Get(data, "price")))
       [] k = "image" -> OrElse(Get(data, "image"), Null)
       [] k = "category" -> OrElse(Get(data, "category"), Text("Uncategorized"))
       [] OTHER -> data[k]]
transformProductResponse(data) ==
  [k \in CanonicalKeys \cup {key \in DOMAIN data : CreatesOwnKey(key)} |->
     CASE k = "id" -> Coalesce(Get(data, "id"), Text(""))
       [] k = "title" -> Coalesce(Get(data, "title"), Text("Untitled Product"))
       [] k = "description" ->
            Coalesce(Get(data, "description"), Text("No description available"))
       [] k = "price" -> Str(transformPrice(Get(data, "price")))
       [] k = "image" -> Coalesce(Get(data, "image"), Null)
       [] k = "category" -> Coalesce(Get(data, "category"), Text("Uncategorized"))
       [] OTHER -> data[k]]

(***************************************************************************)
(* The error classifier: ERROR_CODES and handleApiError.  An error is a    *)
(* record: name (its class), code, whether it carries a response and with  *)
(* which status, whether it carries a request, and its message.            *)
(***************************************************************************)
ErrorInfo(status, message, retryable, retryDelay) ==
  [status |-> status, message |-> message, retryable |-> retryable,
   retryDelay |-> retryDelay]

ERROR_CODES ==
  [code \in {"TIMEOUT", "NETWORK_ERROR", "INVALID_RESPONSE", "VALIDATION_ERROR",
             "NOT_FOUND", "SERVER_ERROR", "TRANSFORM_ERROR", "REQUEST_CANCELLED",
             "UNAUTHORIZED", "FORBIDDEN", "RATE_LIMIT", "UNKNOWN_ERROR"} |->
     CASE code = "TIMEOUT" -> ErrorInfo(408, "Request timed out", TRUE, 1000)
       [] code = "NETWORK_ERROR" -> ErrorInfo(0, "Network error", TRUE, 2000)
       [] code = "INVALID_RESPONSE" ->
            ErrorInfo(500, "Internal Server Error", FALSE, 1000)
       [] code = "VALIDATION_ERROR" ->
            ErrorInfo(400, "Invalid product information or parameters provided",
                      FALSE, 1000)
       [] code = "NOT_FOUND" ->
            ErrorInfo(404, "Requested product could not be found", FALSE, 1000)
       [] code = "SERVER_ERROR" -> ErrorInfo(500, "Internal Server Error", TRUE, 3000)
       [] code = "TRANSFORM_ERROR" ->
            ErrorInfo(422, "Failed to process or transform product data", FALSE, 1000)
       [] code = "REQUEST_CANCELLED" ->
            ErrorInfo(499, "Product data request was cancelled", FALSE, 1000)
       [] code = "UNAUTHORIZED" ->
            ErrorInfo(401, "Unauthorized access to product data", FALSE, 1000)
       [] code = "FORBIDDEN" ->
            ErrorInfo(403, "Access forbidden to product data", FALSE, 1000)
       [] code = "RATE_LIMIT" ->
            ErrorInfo(429, "Too many requests to product service", TRUE, 5000)
       [] OTHER ->
            ErrorInfo(500, "An unexpected error occurred while processing product data",
                      TRUE, 2000)]

\* the error axios rejects with for an answer that validateStatus refuses
ResponseError(status) ==
  [name |-> "AxiosError", code |-> "ERR_BAD_RESPONSE", hasResponse |-> TRUE,
   status |-> status, hasRequest |-> TRUE, message |-> "Request failed",
   retryable |-> FALSE]

\* the error axios rejects with when no answer arrived
NoResponseError ==
  [name |-> "AxiosError", code |-> "ERR_NETWORK", hasResponse |-> FALSE,
   status |-> 0, hasRequest |-> TRUE, message |-> "Network Error",
   retryable |-> FALSE]

\* new APIError(message, status, code): the constructor sets no retryable
APIError(message, status, code) ==
  [name |-> "APIError", code |-> code, hasResponse |-> FALSE, status |-> status,
   hasRequest |-> FALSE, message |-> message, retryable |-> FALSE]

\* new Error(message)
PlainError(message) ==
  [name |-> "Error", code |-> "", hasResponse |-> FALSE, status |-> 0,
   hasRequest |-> FALSE, message |-> message, retryable |-> FALSE]

\* an error that is undefined: lastError of a loop that never ran
UndefinedError ==
  [name |-> "undefined", code |-> "", hasResponse |-> FALSE, status |-> 0,
   hasRequest |-> FALSE, message |-> "", retryable |-> FALSE]

\* the error axios rejects with for a signaled token
CanceledError ==
  [name |-> "CanceledError", code |-> "ERR_CANCELED", hasResponse |-> FALSE,
   status |-> 0, hasRequest |-> FALSE, message |-> "canceled",
   retryable |-> FALSE]

\* the object the response interceptor rejects with for a cancellation
CancelRejection ==
  [name |-> "Object", code |-> "", hasResponse |-> FALSE, status |-> 0,
   hasRequest |-> FALSE, message |-> "Request cancelled", retryable |-> FALSE]

\* the switch of handleApiError over error.response.status || 500
StatusCode(status) ==
  LET responseStatus == IF status = 0 THEN 500 ELSE status
  IN CASE responseStatus = 400 -> "VALIDATION_ERROR"
       [] responseStatus = 401 -> "UNAUTHORIZED"
       [] responseStatus = 403 -> "FORBIDDEN"
       [] responseStatus = 404 -> "NOT_FOUND"
       [] responseStatus = 422 -> "TRANSFORM_ERROR"
       [] responseStatus = 429 -> "RATE_LIMIT"
       [] responseStatus \in {500, 502, 503, 504} -> "SERVER_ERROR"
       [] OTHER -> "UNKNOWN_ERROR"

\* the code handleApiError chooses for an error
ErrorCodeOfResponseFirst(error) ==
  IF error.name = "undefined" THEN "UNKNOWN_ERROR"
  ELSE IF error.name = "TransformError" THEN "TRANSFORM_ERROR"
  ELSE IF error.hasResponse THEN StatusCode(error.status)
  ELSE IF error.code = "ECONNABORTED" THEN "TIMEOUT"
  ELSE IF error.hasRequest THEN "NETWORK_ERROR"
  ELSE "UNKNOWN_ERROR"
ErrorCodeOf(error) ==
  IF error.name = "undefined" THEN "UNKNOWN_ERROR"
  ELSE IF error.name = "TransformError" THEN "TRANSFORM_ERROR"
  ELSE IF error.code = "ECONNABORTED" THEN "TIMEOUT"
  ELSE IF error.hasResponse THEN StatusCode(error.status)
  ELSE IF error.hasRequest THEN "NETWORK_ERROR"
  ELSE "UNKNOWN_ERROR"

\* the APIError handleApiError throws for an error
handleApiError(error) ==
  LET errorCode == ErrorCodeOf(error)
      errorInfo == ERROR_CODES[errorCode]
  IN [APIError(errorInfo.message, errorInfo.status, errorCode)
        EXCEPT !.retryable = errorInfo.retryable]

(***************************************************************************)
(* The coordinator: ProductPage.                                           *)
(***************************************************************************)
VARIABLES
  mounted,      \* mountedRef.current of useMountedState
  productId,    \* the productId prop
  requestId,    \* requestIdRef.current
  state,        \* the useState record
  captured,     \* state.etag and state.lastModified as closed over by fetchProduct
  inflight,     \* calls of getProductById that have not settled
  retryTimer,   \* the setTimeout of the retry effect
  revalTimer,   \* TRUE while the setInterval of the revalidation effect runs
  now,          \* Date.now()
  event,        \* the handler that ran last
  net           \* SpecFetch: the transport and the attempt loop of one fetch

coordVars == <<mounted, productId, requestId, state, captured, inflight,
               retryTimer, revalTimer, now, event>>
vars == <<mounted, productId, requestId, state, captured, inflight,
          retryTimer, revalTimer, now, event, net>>

Ids == {"", "A", "B"}       \* target ids; "" is a missing id

NoError == "null"           \* state.error === null
NoTime == 0                 \* state.lastFetchTime === null; Date.now() > 0
NoProduct == << >>          \* state.product === null
IdRequiredMessage == "Product ID is required"
UnknownErrorMessage == ERROR_CODES["UNKNOWN_ERROR"].message
NotFoundMessage == "Product not found"

AutoRetryLimit == 3         \* state.retryCount < 3
RetryBaseMs == 1000
RetryCapMs == 5000

NoTimer == [pending |-> FALSE, delay |-> 0]

InitialState ==
  [product |-> NoProduct, loading |-> TRUE, error |-> NoError, retryCount |-> 0,
   etag |-> Null, lastModified |-> Null, lastFetchTime |-> NoTime]

Truthy(x) ==
  CASE x.t \in {"undefined", "null", "NaN"} -> FALSE
    [] x.t = "string" -> x.v # << >>
    [] x.t = "number" -> x.v # 0
    [] x.t = "boolean" -> x.v
    [] OTHER -> TRUE

\* a || b
Or(a, b) == IF Truthy(a) THEN a ELSE b

\* the validators the remote source issues for an id
EtagFor(id) == Str(<<"etag", id>>)
LastModifiedFor(id) == Str(<<"last-modified", id>>)

ResponseHeaders(id, withValidators) ==
  IF withValidators
  THEN [etag |-> EtagFor(id), lastModified |-> LastModifiedFor(id)]
  ELSE [etag |-> Undefined, lastModified |-> Undefined]

\* the value getProductById returns for a 2xx answer with payload data
ProductData(data, headers) ==
  LET transformedProduct == transformProductResponse(data)
  IN [k \in DOMAIN transformedProduct \cup {"cached", "etag", "lastModified"} |->
        CASE k = "cached" -> Bool(FALSE)
          [] k = "etag" -> headers.etag
          [] k = "lastModified" -> headers.lastModified
          [] OTHER -> transformedProduct[k]]

\* the price of renderProductDetails:
\* typeof product.price === 'number' ? product.price.toFixed(2) : '0.00'
RenderedPrice(product) ==
  LET price == Get(product, "price")
  IN IF price.t # "number" THEN ZeroPrice
     ELSE IF price.v >= InfinityMilli THEN InfinityText
     ELSE IF price.v < 0 THEN <<"-">> \o ToFixed2(MathRoundCents(0 - price.v))
     ELSE ToFixed2(MathRoundCents(price.v))

\* safeSetState: the update is applied only by the most recent request of a
\* mounted component
SafeSetStateNoTokenCheck(isMounted, currentRequestId, latest, prev, next) ==
  IF isMounted THEN next ELSE prev
SafeSetState(isMounted, currentRequestId, latest, prev, next) ==
  IF isMounted /\ currentRequestId = latest THEN next ELSE prev

\* The world a handler works on: the variables it may change.
World ==
  [mounted |-> mounted, pid |-> productId, rid |-> requestId, st |-> state,
   cap |-> captured, inf |-> inflight, rt |-> retryTimer, iv |-> revalTimer,
   now |-> now]

\* fetchProduct up to its await (or its early return for a missing id)
FetchProductReusingToken(w, src, force) ==
  LET currentRequestId == IF src = "init" THEN 1 ELSE w.rid + 1
      loadingSt == SafeSetState(w.mounted, currentRequestId, currentRequestId, w.st,
                                [w.st EXCEPT !.loading = TRUE, !.error = NoError])
  IN IF w.pid = ""
     THEN [w EXCEPT !.rid = currentRequestId,
                    !.st = SafeSetState(w.mounted, currentRequestId, currentRequestId,
                             loadingSt,
                             [loadingSt EXCEPT !.loading = FALSE,
                                               !.error = IdRequiredMessage])]
     ELSE [w EXCEPT !.rid = currentRequestId,
                    !.st = loadingSt,
                    !.inf = @ \cup {[tok |-> currentRequestId, id |-> w.pid,
                                     src |-> src, aborted |-> FALSE, force |-> force,
                                     etag |-> w.cap.etag,
                                     lastModified |-> w.cap.lastModified,
                                     start |-> w.now]}]
FetchProduct(w, src, force) ==
  LET currentRequestId == w.rid + 1
      loadingSt == SafeSetState(w.mounted, currentRequestId, currentRequestId, w.st,
                                [w.st EXCEPT !.loading = TRUE, !.error = NoError])
  IN IF w.pid = ""
     THEN [w EXCEPT !.rid = currentRequestId,
                    !.st = SafeSetState(w.mounted, currentRequestId, currentRequestId,
                             loadingSt,
                             [loadingSt EXCEPT !.loading = FALSE,
                                               !.error = IdRequiredMessage])]
     ELSE [w EXCEPT !.rid = currentRequestId,
                    !.st = loadingSt,
                    !.inf = @ \cup {[tok |-> currentRequestId, id |-> w.pid,
                                     src |-> src, aborted |-> FALSE, force |-> force,
                                     etag |-> w.cap.etag,
                                     lastModified |-> w.cap.lastModified,
                                     start |-> w.now]}]

\* abortController.abort() of the effects named in srcs
Abort(w, srcs) ==
  [w EXCEPT !.inf = {IF f.src \in srcs THEN [f EXCEPT !.aborted = TRUE] ELSE f :
                     f \in w.inf}]

\* the dependency arrays of the three effects; fetchProduct changes with productId
DepsWithoutProductId(w) ==
  [fetchProduct |-> "", lastFetchTime |-> w.st.lastFetchTime,
   error |-> w.st.error, retryCount |-> w.st.retryCount]
Deps(w) ==
  [fetchProduct |-> w.pid, lastFetchTime |-> w.st.lastFetchTime,
   error |-> w.st.error, retryCount |-> w.st.retryCount]

NotMountedDeps ==
  [fetchProduct |-> "not mounted", lastFetchTime |-> -1, error |-> "not mounted",
   retryCount |-> -1]

\* now - state.lastFetchTime >= cacheTimeout, for a lastFetchTime that is set
Expired(lastFetchTime, t) ==
  lastFetchTime # NoTime /\ t - lastFetchTime >= CacheTimeoutProp

RECURSIVE Pow2(_)
Pow2(n) == IF n <= 0 THEN 1 ELSE 2 * Pow2(n - 1)

\* Math.min(1000 * Math.pow(2, retryCount), 5000)
RetryDelayLinear(retryCount) == Min(RetryBaseMs * (retryCount + 1), RetryCapMs)
RetryDelay(retryCount) == Min(RetryBaseMs * Pow2(retryCount), RetryCapMs)

\* The commit of a render: cleanups of the effects whose dependencies changed,
\* then their bodies in order of declaration, then the render their state
\* updates cause.  old holds the dependencies of the previous commit.
RECURSIVE RunEffects(_, _)
RunEffects(w, old) ==
  LET new == Deps(w)
      initChanged == new.fetchProduct # old.fetchProduct
      revalChanged == initChanged \/ new.lastFetchTime # old.lastFetchTime
      retryChanged == \/ initChanged
                      \/ new.error # old.error
                      \/ new.retryCount # old.retryCount
      srcs == (IF initChanged THEN {"init"} ELSE {}) \cup
              (IF revalChanged THEN {"reval"} ELSE {}) \cup
              (IF retryChanged THEN {"retry"} ELSE {})
      cleaned == [Abort(w, srcs) EXCEPT
                    !.rt = IF retryChanged THEN NoTimer ELSE @,
                    !.cap = IF initChanged
                            THEN [etag |-> w.st.etag,
                                  lastModified |-> w.st.lastModified]
                            ELSE @]
      w1 == IF initChanged THEN FetchProduct(cleaned, "init", TRUE) ELSE cleaned
      w2 == IF revalChanged
            THEN LET started == [w1 EXCEPT !.iv = TRUE]
                 IN IF Expired(w.st.lastFetchTime, w.now)
                    THEN FetchProduct(started, "reval", TRUE)
                    ELSE started
            ELSE w1
      w3 == IF retryChanged /\ w.st.error # NoError /\ w.st.retryCount < AutoRetryLimit
            THEN [w2 EXCEPT !.rt = [pending |-> TRUE,
                                    delay |-> RetryDelay(w.st.retryCount)]]
            ELSE w2
  IN IF w3.st = w.st THEN w3 ELSE RunEffects(w3, new)

\* the payload the remote source holds for an id
RawRecordFor(id) ==
  [k \in {"id", "price"} |->
     IF k = "id" THEN Text(id) ELSE Str(<<"9", ".", "9", "9", "9">>)]

\* the update of fetchProduct after getProductById returned productData
SuccessStateKeepingRetryCount(prev, productData, fetchStart) ==
  [prev EXCEPT !.product = productData,
               !.loading = FALSE,
               !.error = NoError,
               !.etag = Or(productData["etag"], prev.etag),
               !.lastModified = Or(productData["lastModified"], prev.lastModified),
               !.lastFetchTime = fetchStart]
SuccessState(prev, productData, fetchStart) ==
  [prev EXCEPT !.product = productData,
               !.loading = FALSE,
               !.error = NoError,
               !.retryCount = 0,
               !.etag = Or(productData["etag"], prev.etag),
               !.lastModified = Or(productData["lastModified"], prev.lastModified),
               !.lastFetchTime = fetchStart]

\* the update of fetchProduct's catch for an error that is not a cancellation
FailureStateKeepingCount(prev, message) ==
  [prev EXCEPT !.loading = FALSE, !.error = message]
FailureState(prev, message) ==
  [prev EXCEPT !.loading = FALSE, !.error = message, !.retryCount = @ + 1]

\* an error with code REQUEST_CANCELLED or name AbortError leaves the state alone
CatchIgnoringCancellation(w, f, cancelled, message) ==
  [w EXCEPT !.st = SafeSetState(w.mounted, f.tok, w.rid, w.st,
                                FailureState(w.st, message))]
Catch(w, f, cancelled, message) ==
  IF cancelled THEN w
  ELSE [w EXCEPT !.st = SafeSetState(w.mounted, f.tok, w.rid, w.st,
                                     FailureState(w.st, message))]

\* renderErrorState: canRetry
CanRetry(st) == st.retryCount < AutoRetryLimit

\* the "Try Again" button is on the page
RetryButtonShown ==
  mounted /\ ~state.loading /\ state.error # NoError /\ CanRetry(state)

NetIdle == [pc |-> "idle"]

SetWorld(w) ==
  /\ mounted' = w.mounted
  /\ productId' = w.pid
  /\ requestId' = w.rid
  /\ state' = w.st
  /\ captured' = w.cap
  /\ inflight' = w.inf
  /\ retryTimer' = w.rt
  /\ revalTimer' = w.iv
  /\ now' = w.now

\* the world after the first commit of <ProductPage productId={id} />
Mounted(id) ==
  RunEffects([mounted |-> TRUE, pid |-> id, rid |-> 0, st |-> InitialState,
              cap |-> [etag |-> Null, lastModified |-> Null], inf |-> {},
              rt |-> NoTimer, iv |-> FALSE, now |-> 1],
             NotMountedDeps)

\* the handler that ran last: its kind and, for the settling of a fetch f,
\* whether f bore the latest token and the current productId at that time
Ev(kind) == [kind |-> kind, latest |-> TRUE, sameId |-> TRUE]
Settling(kind, f) ==
  [kind |-> kind, latest |-> f.tok = requestId, sameId |-> f.id = productId]

Init ==
  /\ \E id \in Ids :
       LET w == Mounted(id)
       IN /\ mounted = w.mounted /\ productId = w.pid /\ requestId = w.rid
          /\ state = w.st /\ captured = w.cap /\ inflight = w.inf
          /\ retryTimer = w.rt /\ revalTimer = w.iv /\ now = w.now
  /\ event = [kind |-> "mount", latest |-> TRUE, sameId |-> TRUE]
  /\ net = NetIdle

\* the parent renders the page with another productId
ChangeProductId(id) ==
  /\ mounted
  /\ id # productId
  /\ requestId + 1 < MaxRequests
  /\ SetWorld(RunEffects([World EXCEPT !.pid = id], Deps(World)))
  /\ event' = Ev("changeId")
  /\ UNCHANGED net

\* the cleanups of useMountedState and of the three effects
UnmountCleanupLeakingTimers(w) ==
  [Abort(w, {"init", "reval", "retry"}) EXCEPT !.mounted = FALSE]
UnmountCleanup(w) ==
  [Abort(w, {"init", "reval", "retry"}) EXCEPT
     !.mounted = FALSE, !.rt = NoTimer, !.iv = FALSE]

\* the page is removed: every effect is cleaned up
Unmount ==
  /\ mounted
  /\ SetWorld(UnmountCleanup(World))
  /\ event' = Ev("unmount")
  /\ UNCHANGED net

AdvanceClock ==
  /\ now < MaxNow
  /\ now' = now + 1
  /\ UNCHANGED <<mounted, productId, requestId, state, captured, inflight,
                 retryTimer, revalTimer, event, net>>

\* checkAndRefresh, called by the interval of the revalidation effect
CheckAndRefreshAlways(w) == FetchProduct(w, "reval", TRUE)
CheckAndRefresh(w) ==
  IF Expired(w.st.lastFetchTime, w.now) THEN FetchProduct(w, "reval", TRUE) ELSE w

RevalidationTick ==
  /\ revalTimer
  /\ requestId < MaxRequests
  /\ SetWorld(RunEffects(CheckAndRefresh(World), Deps(World)))
  /\ event' = Ev("tick")
  /\ UNCHANGED net

\* the timeout of the retry effect fires
RetryTimerFire ==
  /\ retryTimer.pending
  /\ requestId < MaxRequests
  /\ SetWorld(RunEffects(FetchProduct([World EXCEPT !.rt = NoTimer], "retry", FALSE),
                         Deps(World)))
  /\ event' = Ev("retryTimer")
  /\ UNCHANGED net

\* onClick={fetchProduct}: the click event takes the place of the abort
\* signal, so no effect cleanup can cancel this call
ManualRetryKeepingTimer ==
  /\ RetryButtonShown
  /\ requestId < MaxRequests
  /\ SetWorld([RunEffects(FetchProduct(World, "manual", FALSE), Deps(World))
                EXCEPT !.rt = retryTimer])
  /\ event' = Ev("manualRetry")
  /\ UNCHANGED net
ManualRetry ==
  /\ RetryButtonShown
  /\ requestId < MaxRequests
  /\ SetWorld(RunEffects(FetchProduct(World, "manual", FALSE), Deps(World)))
  /\ event' = Ev("manualRetry")
  /\ UNCHANGED net

\* fetchProduct after its await returned productData for the call f
Resolved(w, f, productData) ==
  [w EXCEPT !.inf = @ \ {f},
            !.st = SafeSetState(w.mounted, f.tok, w.rid, w.st,
                                SuccessState(w.st, productData, f.start))]

\* getProductById returns a record for f
Resolve(f, withValidators) ==
  /\ f \in inflight
  /\ ~f.aborted
  /\ SetWorld(RunEffects(
       Resolved(World, f, ProductData(RawRecordFor(f.id),
                                      ResponseHeaders(f.id, withValidators))),
       Deps(World)))
  /\ event' = Settling("resolve", f)
  /\ UNCHANGED net

\* what getProductById returns for a 304 that passes the response interceptor
NotModifiedData(headers) ==
  [k \in {"cached", "notModified", "etag", "lastModified"} |->
     CASE k = "etag" -> headers.etag
       [] k = "lastModified" -> headers.lastModified
       [] OTHER -> Bool(TRUE)]

\* the validators sent with f are the ones the remote source holds for its id
ValidatorsMatch(f) ==
  f.etag = EtagFor(f.id) \/ f.lastModified = LastModifiedFor(f.id)

\* the remote source answers the conditional request of f with a 304 that
\* has a payload: getProductById returns the not-modified result
ResolveNotModified(f) ==
  /\ f \in inflight
  /\ ~f.aborted
  /\ ValidatorsMatch(f)
  /\ SetWorld(RunEffects(
       Resolved(World, f, NotModifiedData(ResponseHeaders(f.id, TRUE))),
       Deps(World)))
  /\ event' = Settling("notModified", f)
  /\ UNCHANGED net

\* getProductById returns no record for f: fetchProduct throws
\* Error('Product not found') into its own catch
ResolveNull(f) ==
  /\ f \in inflight
  /\ ~f.aborted
  /\ SetWorld(RunEffects(Catch([World EXCEPT !.inf = @ \ {f}], f, FALSE,
                               NotFoundMessage),
                         Deps(World)))
  /\ event' = Settling("resolveNull", f)
  /\ UNCHANGED net

\* getProductById throws the classified error of a failed call
Reject(f) ==
  /\ f \in inflight
  /\ ~f.aborted
  /\ SetWorld(RunEffects(Catch([World EXCEPT !.inf = @ \ {f}], f, FALSE,
                               UnknownErrorMessage),
                         Deps(World)))
  /\ event' = Settling("reject", f)
  /\ UNCHANGED net

\* the signal of f was aborted: getProductById throws REQUEST_CANCELLED
RejectCancelled(f) ==
  /\ f \in inflight
  /\ f.aborted
  /\ SetWorld(RunEffects(Catch([World EXCEPT !.inf = @ \ {f}], f, TRUE,
                               "Product request cancelled"),
                         Deps(World)))
  /\ event' = Settling("cancelled", f)
  /\ UNCHANGED net

Next ==
  \/ \E id \in Ids : ChangeProductId(id)
  \/ Unmount
  \/ AdvanceClock
  \/ RevalidationTick
  \/ RetryTimerFire
  \/ ManualRetry
  \/ \E f \in inflight, withValidators \in BOOLEAN : Resolve(f, withValidators)
  \/ \E f \in inflight : ResolveNotModified(f)
  \/ \E f \in inflight : ResolveNull(f)
  \/ \E f \in inflight : Reject(f)
  \/ \E f \in inflight : RejectCancelled(f)

Spec == Init /\ [][Next]_vars

\* The page stays mounted with the productId of its mount; the timers fire
\* when they are due and every pending call of getProductById settles, that
\* is, no token stays pending for ever (a pending call can always settle).
SettleOf(tok) ==
  \E f \in inflight :
    /\ f.tok = tok
    /\ \/ \E withValidators \in BOOLEAN : Resolve(f, withValidators)
       \/ ResolveNotModified(f)
       \/ ResolveNull(f)
       \/ Reject(f)
       \/ RejectCancelled(f)

NextStaying ==
  \/ AdvanceClock
  \/ RevalidationTick
  \/ RetryTimerFire
  \/ ManualRetry
  \/ \E tok \in 1..MaxRequests : SettleOf(tok)

SpecStaying ==
  /\ Init
  /\ [][NextStaying]_vars
  /\ WF_vars(RevalidationTick)
  /\ WF_vars(RetryTimerFire)
  /\ \A tok \in 1..MaxRequests : []<>(\A f \in inflight : f.tok # tok)

(***************************************************************************)
(* One fetch in detail: the interceptors of services/api.js and the        *)
(* attempt loop of getProductById, against a script of HTTP answers.       *)
(* Status 0 stands for a request that got no answer.                       *)
(***************************************************************************)
MaxRetryAttempts == 3                         \* DEFAULT_CONFIG.maxRetryAttempts
TransportRetryDelay == 1000                   \* DEFAULT_CONFIG.retryDelay
RetryStatusCodes == {408, 429, 500, 502, 503, 504}
CoordinatorRetries == 2                       \* retries: 2 of fetchProduct

Statuses == {0, 200, 404, 500}
Jitters == {0, 99}                            \* Math.random() * 100
FetchedId == "123"
RawPrices ==
  {Str(<<"9", ".", "9", "9", "9">>),
   Str(<<"$", "1", ",", "2", "3", "4", ".", "5", "6", "7">>),
   Num(0 - 5000),
   Num(99990),
   Undefined}

Scripts == UNION {[1..n -> Statuses] : n \in 0..MaxScript}

\* validateStatus of REQUEST_CONFIG
ValidateStatus(status) == (status >= 200 /\ status < 300) \/ status = 304

isRetryableErrorAlways(error) == TRUE
isRetryableError(error) ==
  ~error.hasResponse \/ error.status \in RetryStatusCodes

\* the response error interceptor sends the request again
TransportRetries(error, retryCount) ==
  /\ error.code # "ECONNABORTED"
  /\ retryCount < MaxRetryAttempts
  /\ isRetryableError(error)

\* DEFAULT_CONFIG.retryDelay * Math.pow(2, config.retryCount - 1) + jitter
TransportBackoffFromCount(retryCount, jitter) ==
  TransportRetryDelay * Pow2(retryCount) + jitter
TransportBackoff(retryCount, jitter) ==
  TransportRetryDelay * Pow2(retryCount - 1) + jitter

\* the catch of the attempt loop: the code it looks up in ERROR_CODES
AttemptErrorCode(error) ==
  IF error.name = "APIError" THEN error.code ELSE "UNKNOWN_ERROR"

\* the attempt loop goes on to another attempt
AttemptRetries(error, attempt, retries) ==
  ERROR_CODES[AttemptErrorCode(error)].retryable /\ attempt < retries

\* retryDelay * Math.pow(2, attempt)
AttemptBackoff(attempt) == TransportRetryDelay * Pow2(attempt)

\* the error getProductById throws after the loop: handleApiError throws
\* inside the outer try, whose catch passes the APIError to handleApiError
FinalError(lastError) == handleApiError(handleApiError(lastError))

\* the payload of a 2xx answer
ScriptedRecord(id, rawPrice) ==
  [k \in {"id", "price"} |-> IF k = "id" THEN Text(id) ELSE rawPrice]

ErrorOfStatus(status) ==
  IF status = 0 THEN NoResponseError ELSE ResponseError(status)

NextStatus == IF net.script = << >> THEN net.tail ELSE Head(net.script)
RestScript == IF net.script = << >> THEN << >> ELSE Tail(net.script)

TheFetch == CHOOSE f \in inflight : TRUE

InitFetch ==
  /\ LET w == Mounted(FetchedId)
     IN /\ mounted = w.mounted /\ productId = w.pid /\ requestId = w.rid
        /\ state = w.st /\ captured = w.cap /\ inflight = w.inf
        /\ retryTimer = w.rt /\ revalTimer = w.iv /\ now = w.now
  /\ event = [kind |-> "mount", latest |-> TRUE, sameId |-> TRUE]
  /\ \E script \in Scripts, tail \in Statuses, rawPrice \in RawPrices :
       net = [pc |-> "wire", script |-> script, tail |-> tail,
              script0 |-> script, rawPrice |-> rawPrice, retryCount |-> 0,
              attempt |-> 0, sends |-> 1, delay |-> 0]

\* a 2xx answer: getProductById validates, normalizes and returns the record
AnswerOk(withValidators) ==
  /\ net.pc = "wire"
  /\ ValidateStatus(NextStatus)
  /\ SetWorld(RunEffects(
       Resolved(World, TheFetch,
                ProductData(ScriptedRecord(TheFetch.id, net.rawPrice),
                            ResponseHeaders(TheFetch.id, withValidators))),
       Deps(World)))
  /\ event' = Settling("resolve", TheFetch)
  /\ net' = [net EXCEPT !.pc = "done", !.script = RestScript]

\* a failure the response interceptor retries: it waits, then sends again
AnswerTransportRetry(jitter) ==
  /\ net.pc = "wire"
  /\ ~ValidateStatus(NextStatus)
  /\ TransportRetries(ErrorOfStatus(NextStatus), net.retryCount)
  /\ net' = [net EXCEPT !.pc = "transportDelay", !.script = RestScript,
                        !.retryCount = @ + 1,
                        !.delay = TransportBackoff(net.retryCount + 1, jitter)]
  /\ event' = Ev("net")
  /\ UNCHANGED <<mounted, productId, requestId, state, captured, inflight,
                 retryTimer, revalTimer, now>>

TransportResend ==
  /\ net.pc = "transportDelay"
  /\ net' = [net EXCEPT !.pc = "wire", !.sends = @ + 1]
  /\ event' = Ev("net")
  /\ UNCHANGED <<mounted, productId, requestId, state, captured, inflight,
                 retryTimer, revalTimer, now>>

\* a failure the interceptor surfaces and the attempt loop retries
AnswerAttemptRetry ==
  /\ net.pc = "wire"
  /\ ~ValidateStatus(NextStatus)
  /\ ~TransportRetries(ErrorOfStatus(NextStatus), net.retryCount)
  /\ AttemptRetries(ErrorOfStatus(NextStatus), net.attempt, CoordinatorRetries)
  /\ net' = [net EXCEPT !.pc = "attemptDelay", !.script = RestScript,
                        !.delay = AttemptBackoff(net.attempt)]
  /\ event' = Ev("net")
  /\ UNCHANGED <<mounted, productId, requestId, state, captured, inflight,
                 retryTimer, revalTimer, now>>

\* the next attempt: api.get with the caller's config, retry counter at 0
AttemptResendKeepingCount ==
  /\ net.pc = "attemptDelay"
  /\ net' = [net EXCEPT !.pc = "wire", !.attempt = @ + 1, !.sends = @ + 1]
  /\ event' = Ev("net")
  /\ UNCHANGED <<mounted, productId, requestId, state, captured, inflight,
                 retryTimer, revalTimer, now>>
AttemptResend ==
  /\ net.pc = "attemptDelay"
  /\ net' = [net EXCEPT !.pc = "wire", !.attempt = @ + 1, !.retryCount = 0,
                        !.sends = @ + 1]
  /\ event' = Ev("net")
  /\ UNCHANGED <<mounted, productId, requestId, state, captured, inflight,
                 retryTimer, revalTimer, now>>

\* a failure that ends the call: getProductById throws, fetchProduct catches
AnswerFinalFailure ==
  /\ net.pc = "wire"
  /\ ~ValidateStatus(NextStatus)
  /\ ~TransportRetries(ErrorOfStatus(NextStatus), net.retryCount)
  /\ ~AttemptRetries(ErrorOfStatus(NextStatus), net.attempt, CoordinatorRetries)
  /\ SetWorld(RunEffects(
       Catch([World EXCEPT !.inf = @ \ {TheFetch}], TheFetch, FALSE,
             FinalError(ErrorOfStatus(NextStatus)).message),
       Deps(World)))
  /\ event' = Settling("reject", TheFetch)
  /\ net' = [net EXCEPT !.pc = "done", !.script = RestScript]

NextFetch ==
  \/ \E withValidators \in BOOLEAN : AnswerOk(withValidators)
  \/ \E jitter \in Jitters : AnswerTransportRetry(jitter)
  \/ TransportResend
  \/ AnswerAttemptRetry
  \/ AttemptResend
  \/ AnswerFinalFailure

SpecFetch == InitFetch /\ [][NextFetch]_vars

(***************************************************************************)
(* SpecNormalize: transformPrice and transformProductResponse applied to   *)
(* inputs drawn from bounded sets.  No page is rendered: the variables of  *)
(* the coordinator keep the values of NoPage, and net holds the input and  *)
(* what the functions returned.                                            *)
(***************************************************************************)
NoPage ==
  [mounted |-> FALSE, pid |-> "", rid |-> 0, st |-> InitialState,
   cap |-> [etag |-> Null, lastModified |-> Null], inf |-> {},
   rt |-> NoTimer, iv |-> FALSE, now |-> 1]

InitNoPage ==
  /\ mounted = NoPage.mounted /\ productId = NoPage.pid
  /\ requestId = NoPage.rid /\ state = NoPage.st /\ captured = NoPage.cap
  /\ inflight = NoPage.inf /\ retryTimer = NoPage.rt
  /\ revalTimer = NoPage.iv /\ now = NoPage.now
  /\ event = Ev("call")

\* no digit 5: no text or number of the model lies halfway between two cents
PriceChars == {"0", "1", "9", ".", "$", ",", "-", "a"}
PriceTexts == UNION {[1..n -> PriceChars] : n \in 0..MaxLen}
PriceNumbers == {0 - 1500, 0 - 1, 0, 4, 9, 1500, 99001, 99999}
PriceInputs ==
  {Str(s) : s \in PriceTexts} \cup {Num(m) : m \in PriceNumbers} \cup
  {Undefined, Null, NaN, Infinity, Obj(0), Obj(2), Bool(TRUE)}

RawKeys == {"id", "price", "sku", "__proto__"}
RawValues == {Null, Text("x"), Num(1500)}
\* a "__proto__" of null is left out: it detaches the prototype, and what
\* follows depends on the order of the keys
RawRecords ==
  {data \in UNION {[K -> RawValues] : K \in SUBSET RawKeys} :
     "__proto__" \in DOMAIN data => data["__proto__"] # Null}

\* raw records over the fields that have a default: each field absent or
\* holding undefined, null, '', a text, 0 or false
DefaultedKeys == {"id", "title", "description", "image", "category"}
DefaultedValues == {Undefined, Null, Text(""), Text("x"), Num(0), Bool(FALSE)}
DefaultedRecords == UNION {[K -> DefaultedValues] : K \in SUBSET DefaultedKeys}

\* parseFloat of a text transformPrice returned
parseFloat(s) ==
  IF s = InfinityText THEN Infinity
  ELSE IF MatchesDecimal(s) THEN Num(ParseFloatMilli(s))
  ELSE NaN

\* an array with n elements; typeof gives 'object', Array.isArray tells it apart
Arr(n) == [t |-> "array", v |-> n]

\* what a call gave: the value it returned or the error it threw
Returned(value) == [kind |-> "returned", value |-> value, error |-> UndefinedError]
Thrown(error) == [kind |-> "thrown", value |-> Undefined, error |-> error]

\* const { name = default } = options
Default(option, default) == IF option.t = "undefined" THEN default ELSE option.v

\* validateResponse(response, options) under process.env.NODE_ENV = env
validateResponse(response, options, env) ==
  LET requireArray == Default(options.requireArray, FALSE)
      allowEmpty == Default(options.allowEmpty, TRUE)
      data == response.data
  IN IF ~response.present
     THEN Thrown(APIError("No response received from server", 500,
                          "INVALID_RESPONSE"))
     ELSE IF ~response.hasData
     THEN Thrown(APIError("Malformed API response: missing data property", 500,
                          "INVALID_RESPONSE"))
     ELSE IF IsNullish(data)
     THEN IF env = "test"
          THEN Returned(IF requireArray THEN Arr(0) ELSE Null)
          ELSE Thrown(APIError("Invalid response: data is null", 500,
                               "INVALID_RESPONSE"))
     ELSE IF requireArray /\ data.t # "array"
     THEN Thrown(APIError("Invalid response format: expected array", 500,
                          "INVALID_RESPONSE"))
     ELSE IF ~allowEmpty /\ data.t \in {"array", "object"} /\ data.v = 0
     THEN Thrown(APIError("Empty response received when data was required",
                          500, "INVALID_RESPONSE"))
     ELSE Returned(data)

Payloads ==
  {Null, Undefined, Arr(0), Arr(2), Obj(0), Obj(2), Text("x"), Num(1000)}
Responses ==
  {[present |-> FALSE, hasData |-> FALSE, data |-> Undefined],
   [present |-> TRUE, hasData |-> FALSE, data |-> Undefined]} \cup
  {[present |-> TRUE, hasData |-> TRUE, data |-> data] : data \in Payloads}
OptionValues == {Undefined, Bool(TRUE), Bool(FALSE)}
ValidationInputs ==
  {[response |-> response,
    options |-> [requireArray |-> requireArray, allowEmpty |-> allowEmpty],
    env |-> env] :
     response \in Responses, requireArray \in OptionValues,
     allowEmpty \in OptionValues, env \in {"production", "test"}}

\* the errors given to handleApiError: every combination of the properties
\* it tests, and no error at all
ClassifiedStatuses ==
  {0, 200, 400, 401, 403, 404, 408, 422, 429, 500, 501, 502, 503, 504, 599}
ErrorInputs ==
  {[name |-> name, code |-> code, hasResponse |-> hasResponse, status |-> status,
    hasRequest |-> hasRequest, message |-> "failed", retryable |-> FALSE] :
     name \in {"TransformError", "AxiosError", "Error"},
     code \in {"ECONNABORTED", "ERR_BAD_RESPONSE", ""},
     hasResponse \in BOOLEAN, status \in ClassifiedStatuses,
     hasRequest \in BOOLEAN}
  \cup {UndefinedError}

InitNormalize ==
  /\ InitNoPage
  /\ \/ \E error \in ErrorInputs :
          net = [pc |-> "input", fn |-> "handleApiError", input |-> error,
                 out |-> << >>, again |-> << >>, reparsed |-> << >>]
     \/ \E input \in ValidationInputs :
          net = [pc |-> "input", fn |-> "validateResponse", input |-> input,
                 out |-> << >>, again |-> << >>, reparsed |-> << >>]
     \/ \E price \in PriceInputs :
          net = [pc |-> "input", fn |-> "transformPrice", input |-> price,
                 out |-> << >>, again |-> << >>, reparsed |-> << >>]
     \/ \E data \in RawRecords \cup DefaultedRecords :
          net = [pc |-> "input", fn |-> "transformProductResponse",
                 input |-> data, out |-> << >>, again |-> << >>,
                 reparsed |-> << >>]

\* transformPrice(price)
ApplyTransformPrice ==
  /\ net.pc = "input" /\ net.fn = "transformPrice"
  /\ net' = [net EXCEPT !.pc = "out", !.out = transformPrice(net.input)]
  /\ UNCHANGED coordVars

\* transformPrice of the text returned, and of the number parsed from it
ApplyTransformPriceAgain ==
  /\ net.pc = "out" /\ net.fn = "transformPrice"
  /\ net' = [net EXCEPT !.pc = "again",
                        !.again = transformPrice(Str(net.out)),
                        !.reparsed = transformPrice(parseFloat(net.out))]
  /\ UNCHANGED coordVars

\* transformProductResponse(data)
ApplyTransformProductResponse ==
  /\ net.pc = "input" /\ net.fn = "transformProductResponse"
  /\ net' = [net EXCEPT !.pc = "out",
                        !.out = transformProductResponse(net.input)]
  /\ UNCHANGED coordVars

\* validateResponse(response, options)
ApplyValidateResponse ==
  /\ net.pc = "input" /\ net.fn = "validateResponse"
  /\ net' = [net EXCEPT !.pc = "out",
                        !.out = validateResponse(net.input.response,
                                                 net.input.options,
                                                 net.input.env)]
  /\ UNCHANGED coordVars

\* handleApiError(error): it always throws
ApplyHandleApiError ==
  /\ net.pc = "input" /\ net.fn = "handleApiError"
  /\ net' = [net EXCEPT !.pc = "out", !.out = Thrown(handleApiError(net.input))]
  /\ UNCHANGED coordVars

NextNormalize ==
  \/ ApplyHandleApiError
  \/ ApplyValidateResponse
  \/ ApplyTransformPrice
  \/ ApplyTransformPriceAgain
  \/ ApplyTransformProductResponse

SpecNormalize == InitNormalize /\ [][NextNormalize]_vars

(***************************************************************************)
(* SpecService: getProductById and getProducts called directly and         *)
(* followed through the interceptors of the axios instance.  No page is    *)
(* rendered; net is the call: its arguments, its position, the counters of *)
(* the interceptor and of the attempt loop, and what it returned or threw. *)
(* axios refuses to send with a signaled token and rejects a pending send  *)
(* whose token becomes signaled.                                           *)
(***************************************************************************)
ServiceStatuses == {0, 200, 304, 401, 404, 500}
IdInputs == {Undefined, Text(""), Text(FetchedId), Num(123000)}
RetriesInputs == {Undefined, Num(0), Num(1000), Num(2000)}
Signals == {"none", "live", "aborted"}
Envs == {"production", "test"}                \* process.env.NODE_ENV

\* DEFAULT_CONFIG.retries: DEFAULT_CONFIG has no such key
DefaultRetries == Undefined

\* an element of the array a collection fetch receives
Element(t, isArray, fields) == [t |-> t, isArray |-> isArray, fields |-> fields]
NoFields == [k \in {} |-> Null]
Elements ==
  {Element("object", FALSE,
           [k \in {"id", "price"} |-> IF k = "id" THEN Text("p1") ELSE Num(10500)]),
   Element("object", FALSE, [k \in {"title"} |-> Text("T")]),
   Element("null", FALSE, NoFields),
   Element("string", FALSE, NoFields),
   Element("object", TRUE, NoFields)}
ItemLists == UNION {[1..n -> Elements] : n \in 0..MaxItems}

\* !product || typeof product !== 'object' of getProducts and the
\* Array.isArray test of transformProductResponse do not throw
Transformable(product) == product.t = "object" /\ ~product.isArray

\* product?.id
ProductIdOf(product) ==
  IF product.t = "object" /\ ~product.isArray
  THEN Get(product.fields, "id")
  ELSE Undefined

\* the forEach of getProducts: the records it pushes
RECURSIVE transformedProducts(_)
transformedProducts(data) ==
  IF data = << >> THEN << >>
  ELSE (IF Transformable(Head(data))
        THEN <<transformProductResponse(Head(data).fields)>>
        ELSE << >>) \o transformedProducts(Tail(data))

\* the forEach of getProducts: the entries it pushes, from a given index on
RECURSIVE transformErrorsFrom(_, _)
transformErrorsFrom(data, index) ==
  IF data = << >> THEN << >>
  ELSE (IF Transformable(Head(data))
        THEN << >>
        ELSE <<[index |-> index, productId |-> ProductIdOf(Head(data)),
                error |-> "TransformError"]>>)
       \o transformErrorsFrom(Tail(data), index + 1)

transformErrorsCountingFromOne(data) == transformErrorsFrom(data, 1)
transformErrors(data) == transformErrorsFrom(data, 0)

NoResult == [kind |-> "none", value |-> 0]

\* what getProducts returns for the array data
ResponseData(data, env) ==
  IF env = "test"
  THEN [kind |-> "array",
        value |-> [products |-> transformedProducts(data), errors |-> Undefined]]
  ELSE [kind |-> "responseData",
        value |-> [products |-> transformedProducts(data),
                   errors |-> IF Len(transformErrors(data)) > 0
                              THEN [t |-> "object", v |-> transformErrors(data)]
                              ELSE Null]]

\* what getProductById returns for a 304
NotModified(headers) ==
  [kind |-> "notModified",
   value |-> [cached |-> Bool(TRUE), notModified |-> Bool(TRUE),
              etag |-> headers.etag, lastModified |-> headers.lastModified]]

\* what getProductById returns for a 2xx
Product(data, headers) ==
  [kind |-> "product", value |-> ProductData(data, headers)]

SignalAborted(c) == c.signal = "aborted"      \* signal && signal.aborted

\* config.signal: getProductById passes it on, getProducts does not
TokenSupplied(c) == c.fn = "getProductById" /\ c.signal # "none"

Raise(c, error) == [c EXCEPT !.pc = "raised", !.error = error]
Return(c, result) == [c EXCEPT !.pc = "returned", !.result = result]

\* !productId || typeof productId !== 'string' is false
ValidProductIdIfTruthy(id) == Truthy(id)
ValidProductId(id) == Truthy(id) /\ id.t = "string"

\* retries = DEFAULT_CONFIG.retries of the destructuring
Retries(c) == IF c.retries.t = "undefined" THEN DefaultRetries ELSE c.retries

\* attempt <= retries
LoopRuns(attempt, retries) ==
  retries.t = "number" /\ attempt * 1000 <= retries.v

\* the outer catch of getProductById
ByIdOuterCatch(c, error) ==
  IF error.name = "AbortError" \/ SignalAborted(c)
  THEN Raise(c, APIError("Product request cancelled", 499, "REQUEST_CANCELLED"))
  ELSE Raise(c, handleApiError(error))

\* the catch of the attempt loop, and what follows when the loop ends
ByIdCatch(c, error) ==
  IF error.name = "AbortError" \/ SignalAborted(c)
  THEN ByIdOuterCatch([c EXCEPT !.cancelled = TRUE],
                      APIError("Product request cancelled", 499,
                               "REQUEST_CANCELLED"))
  ELSE IF AttemptRetries(error, c.attempt, Retries(c).v \div 1000)
  THEN [c EXCEPT !.pc = "attemptDelay"]
  ELSE ByIdOuterCatch(c, handleApiError(error))

\* the two catches of getProducts
ProductsCatch(c, error) ==
  IF error.name = "AbortError" \/ SignalAborted(c)
  THEN Raise([c EXCEPT !.cancelled = TRUE],
             handleApiError(APIError("Products request cancelled", 499,
                                     "REQUEST_CANCELLED")))
  ELSE Raise(c, handleApiError(error))

CatchOf(c, error) ==
  IF c.fn = "getProductById" THEN ByIdCatch(c, error) ELSE ProductsCatch(c, error)

isCancel(error) == error.name = "CanceledError"

\* what the response error interceptor does with an error
OnRejectedRetryingCancellation(error, retryCount) ==
  IF TransportRetries(error, retryCount) THEN "retry"
  ELSE IF isCancel(error) THEN "cancelled"
  ELSE "reject"
OnRejected(error, retryCount) ==
  IF isCancel(error) THEN "cancelled"
  ELSE IF TransportRetries(error, retryCount) THEN "retry"
  ELSE "reject"

\* a send failed with error: the response error interceptor, then the caller
TransportFailed(c, error) ==
  LET decision == OnRejected(error, c.retryCount)
  IN CASE decision = "cancelled" ->
            CatchOf([c EXCEPT !.transport = "cancelled"], CancelRejection)
       [] decision = "retry" ->
            [c EXCEPT !.pc = "transportDelay", !.retryCount = @ + 1,
                      !.transport = "waiting"]
       [] OTHER -> CatchOf([c EXCEPT !.transport = "rejected"], error)

\* api.get / api(config): no send with a signaled token
Send(c) ==
  IF TokenSupplied(c) /\ SignalAborted(c)
  THEN TransportFailed(c, CanceledError)
  ELSE [c EXCEPT !.pc = "wire", !.sends = @ + 1, !.transport = "sent",
                 !.answer = [status |-> 0, hasBody |-> FALSE, given |-> FALSE]]

\* validateStatus of the call
Accepts(fn, status) ==
  IF fn = "getProductById" THEN ValidateStatus(status)
  ELSE status >= 200 /\ status < 300

\* an accepted answer: the response interceptor, then the caller
TransportFulfilled(c, status, hasBody) ==
  IF ~hasBody
  THEN CatchOf([c EXCEPT !.transport = "rejected"],
               PlainError("Invalid response received from server"))
  ELSE LET d == [c EXCEPT !.transport = "fulfilled"]
       IN IF c.fn = "getProducts" THEN Return(d, ResponseData(c.data, c.env))
          ELSE IF status = 304
          THEN Return(d, NotModified(ResponseHeaders(FetchedId, TRUE)))
          ELSE Return(d, Product(ScriptedRecord(FetchedId, Num(10500)),
                                 ResponseHeaders(FetchedId, TRUE)))

NoAnswer == [status |-> 0, hasBody |-> FALSE, given |-> FALSE]

NewCall(fn, id, retries, signal, env, data) ==
  [pc |-> "called", fn |-> fn, id |-> id, retries |-> retries,
   signal |-> signal, env |-> env, data |-> data, attempt |-> 0,
   retryCount |-> 0, sends |-> 0, transport |-> "idle", cancelled |-> FALSE,
   abortedAt |-> IF signal = "aborted" THEN "called" ELSE "never",
   answer |-> NoAnswer, error |-> UndefinedError, result |-> NoResult]

InitService ==
  /\ InitNoPage
  /\ \/ \E id \in IdInputs, retries \in RetriesInputs, signal \in Signals :
          net = NewCall("getProductById", id, retries, signal, "production",
                        << >>)
     \/ \E signal \in Signals, env \in Envs, data \in ItemLists :
          net = NewCall("getProducts", Undefined, Undefined, signal, env, data)

\* the call up to its first await: the check of the id, the first pass
\* through the loop guard, the first api.get
Call ==
  /\ net.pc = "called"
  /\ net' = IF net.fn = "getProducts" THEN Send(net)
            ELSE IF ~ValidProductId(net.id)
            THEN Raise(net, APIError("Invalid or missing product ID", 400,
                                     "VALIDATION_ERROR"))
            ELSE IF ~LoopRuns(0, Retries(net))
            THEN ByIdOuterCatch(net, handleApiError(UndefinedError))
            ELSE Send(net)
  /\ UNCHANGED coordVars

\* the server answers the pending send
ServerAnswers(status, hasBody) ==
  /\ net.pc = "wire"
  /\ hasBody \/ Accepts(net.fn, status)
  /\ LET c == [net EXCEPT !.answer = [status |-> status, hasBody |-> hasBody,
                                      given |-> TRUE]]
     IN net' = IF Accepts(net.fn, status)
               THEN TransportFulfilled(c, status, hasBody)
               ELSE TransportFailed(c, ErrorOfStatus(status))
  /\ UNCHANGED coordVars

\* the caller signals the token while the call is pending
AbortSignal ==
  /\ net.signal = "live"
  /\ net.pc \in {"wire", "transportDelay", "attemptDelay"}
  /\ LET c == [net EXCEPT !.signal = "aborted", !.abortedAt = net.pc]
     IN net' = IF net.pc = "wire" /\ TokenSupplied(c)
               THEN TransportFailed(c, CanceledError)
               ELSE c
  /\ UNCHANGED coordVars

\* the delay of the interceptor is over: api(config)
RetryAfterDelay ==
  /\ net.pc = "transportDelay"
  /\ net' = Send(net)
  /\ UNCHANGED coordVars

\* the delay of the attempt loop is over: the next api.get
NextAttempt ==
  /\ net.pc = "attemptDelay"
  /\ net' = Send([net EXCEPT !.attempt = @ + 1, !.retryCount = 0])
  /\ UNCHANGED coordVars

NextService ==
  \/ Call
  \/ \E status \in ServiceStatuses, hasBody \in BOOLEAN :
       ServerAnswers(status, hasBody)
  \/ AbortSignal
  \/ RetryAfterDelay
  \/ NextAttempt

SpecService == InitService /\ [][NextService]_vars

(***************************************************************************)
(* Properties of the coordinator.                                          *)
(***************************************************************************)
Settled == {"resolve", "notModified", "resolveNull", "reject", "cancelled"}

\* the step is a run of a handler of one of the kinds; AdvanceClock, the
\* only step that is not a handler, is the only one that changes now
Ran(kinds) == event'.kind \in kinds /\ now' = now

\* the page shows a record: not loading, no error, a product
Success == ~state.loading /\ state.error = NoError /\ state.product # NoProduct

\* the page shows an error
ErrorShown == ~state.loading /\ state.error # NoError

\* C1: the result of a fetch whose token is no longer the latest minted
\* token changes neither the state (loading, product, error, retryCount)
\* nor anything else of the coordinator but the set of pending calls.
C1_StaleResultDropped ==
  [][(Ran(Settled) /\ ~event'.latest)
       => (state' = state /\ requestId' = requestId /\ retryTimer' = retryTimer)]_vars

\* a record arrived for a superseded token while the page was mounted
C1_Witness ==
  /\ mounted
  /\ event.kind = "resolve"
  /\ ~event.latest

C3_CancelledNeverTransitions ==
  [][(Ran({"cancelled"}) \/ (Ran(Settled) /\ ~mounted))
       => state' = state]_vars

\* a cancelled fetch settled while its token was still the latest
C3_Witness ==
  /\ event.kind = "cancelled"
  /\ event.latest
  /\ state.loading

\* a revalidation fetch of the running revalidation effect is pending
RevalidationPending ==
  \E f \in inflight : f.src = "reval" /\ ~f.aborted /\ f.tok = requestId

\* C4: a tick before expiry issues no fetch; the first tick after expiry
\* issues exactly one; the ticks that follow issue none while it is pending.
C4_OneFetchPerExpiry ==
  [][Ran({"tick"})
       => IF ~Expired(state.lastFetchTime, now) THEN requestId' = requestId
          ELSE IF RevalidationPending THEN requestId' = requestId
          ELSE requestId' = requestId + 1]_vars

\* C5: in Error with retryCount >= 3 no timer mints a token.
C5_NoAutomaticFetchAfterThreeFailures ==
  [][(ErrorShown /\ state.retryCount >= AutoRetryLimit
        /\ Ran({"tick", "retryTimer"}))
       => requestId' = requestId]_vars

\* C6: in every Error state the retry action is offered.
C6_RetryAlwaysOffered ==
  (mounted /\ ErrorShown) => RetryButtonShown

\* C7: a change of the target id replaces the fetch context: retryCount 0,
\* no lastFetchTime, no validators kept or sent with the fetches of the new id.
C7_ContextReplacedOnIdChange ==
  [][Ran({"changeId"})
       => /\ state'.retryCount = 0
          /\ state'.lastFetchTime = NoTime
          /\ state'.etag = Null /\ state'.lastModified = Null
          /\ \A f \in inflight' :
               f.tok > requestId => (f.etag = Null /\ f.lastModified = Null)]_vars

\* C8: teardown, or a change of the target id, aborts the signal of every
\* call that is in flight.
C8_TeardownAbortsEveryCall ==
  [][Ran({"unmount", "changeId"})
       => \A f \in inflight' : f.tok <= requestId => f.aborted]_vars

\* C9: once unmounted, no timer is left and no token is minted.
C9_NoTimerAfterTeardown ==
  [][~mounted' => (/\ ~retryTimer'.pending
                   /\ ~revalTimer'
                   /\ requestId' = requestId
                   /\ {f.tok : f \in inflight'} \subseteq {f.tok : f \in inflight})]_vars

\* an unmounted page in Error below the retry limit whose cache has expired
C9_Witness ==
  /\ ~mounted
  /\ ErrorShown
  /\ state.retryCount < AutoRetryLimit
  /\ Expired(state.lastFetchTime, now)
  /\ event.kind # "unmount"

(***************************************************************************)
(* Properties of one fetch.                                                *)
(***************************************************************************)
\* the scripted answers are HTTP 500, HTTP 500, then HTTP 200 with the
\* payload {id: "123", price: "9.999"}
C10_Scenario ==
  /\ net.script0 = <<500, 500, 200>>
  /\ net.rawPrice = Str(<<"9", ".", "9", "9", "9">>)

\* C10: in that scenario the page never shows an error, and once the call
\* has ended it shows the record of "123" with price "10.00" and retryCount 0.
C10_TwoFailuresThenSuccess ==
  C10_Scenario =>
    /\ state.error = NoError
    /\ net.pc = "done" =>
         /\ Success
         /\ state.product["id"] = Text(FetchedId)
         /\ state.product["price"] = Str(<<"1", "0", ".", "0", "0">>)
         /\ state.retryCount = 0

\* the scenario ran to its end: three sends, the last one answered with 200
C10_Witness ==
  /\ C10_Scenario
  /\ net.pc = "done"
  /\ net.sends = 3
  /\ event.kind = "resolve"

(***************************************************************************)
(* Properties of the normalizer.                                           *)
(***************************************************************************)
\* digits, a point and exactly two digits
TwoDecimalText(s) ==
  /\ Len(s) >= 4
  /\ s[Len(s) - 2] = "."
  /\ AllDigits(SubSeq(s, 1, Len(s) - 3))
  /\ AllDigits(SubSeq(s, Len(s) - 1, Len(s)))

\* the inputs the price normalizer is to answer with "0.00"
UnrecognizedPrice(price) ==
  \/ IsNullish(price)
  \/ price.t = "object" /\ price.v = 0
  \/ price.t = "string" /\ ~MatchesDecimal(RemoveChars(price.v, StrippedChars))
  \/ price.t \notin {"string", "number"}
  \/ price.t = "number" /\ price.v < 0

PriceReturned == net.fn = "transformPrice" /\ net.pc \in {"out", "again"}

\* C18: for every input transformPrice returns a text of digits, a point and
\* exactly two digits, and it returns "0.00" for null, undefined, an empty
\* object, a text that is not an unsigned decimal once stripped, NaN, a value
\* that is not a number, and a negative number.
C18_PriceTotalTwoDecimals ==
  PriceReturned =>
    /\ TwoDecimalText(net.out)
    /\ UnrecognizedPrice(net.input) => net.out = ZeroPrice

\* C19: normalizing the text transformPrice returned, or the number parsed
\* from that text, returns the same text again.
C19_PriceIdempotent ==
  (net.fn = "transformPrice" /\ net.pc = "again") =>
    (net.again = net.out /\ net.reparsed = net.out)

\* the value transformProductResponse gives a canonical field
CanonicalValue(data, k) ==
  CASE k = "id" -> Coalesce(Get(data, "id"), Text(""))
    [] k = "title" -> Coalesce(Get(data, "title"), Text("Untitled Product"))
    [] k = "description" ->
         Coalesce(Get(data, "description"), Text("No description available"))
    [] k = "price" -> Str(transformPrice(Get(data, "price")))
    [] k = "image" -> Coalesce(Get(data, "image"), Null)
    [] OTHER -> Coalesce(Get(data, "category"), Text("Uncategorized"))

\* C20: every input key other than the six canonical ones is a key of the
\* canonical record with the input value, and the six canonical fields hold
\* their normalized values whatever other keys the input has.
C20_UnknownFieldsSurvive ==
  (net.fn = "transformProductResponse" /\ net.pc = "out") =>
    /\ \A k \in DOMAIN net.input \ CanonicalKeys :
         k \in DOMAIN net.out /\ net.out[k] = net.input[k]
    /\ \A k \in CanonicalKeys :
         k \in DOMAIN net.out /\ net.out[k] = CanonicalValue(net.input, k)

(***************************************************************************)
(* Properties of the service calls.                                        *)
(***************************************************************************)
ById == net.fn = "getProductById"
CallEnded == net.pc \in {"returned", "raised"}

\* the last answer of the server was the HTTP status of an error
HttpErrorAnswered == net.answer.given /\ net.answer.status >= 400

\* C11: when getProductById fails after an HTTP error status, the error it
\* throws has the code the classifier gives that status (404 NOT_FOUND, 401
\* UNAUTHORIZED, 500 SERVER_ERROR) and the retryable flag of that code.
C11_RaisedErrorCarriesStatusCode ==
  (ById /\ net.pc = "raised" /\ ~SignalAborted(net) /\ HttpErrorAnswered) =>
    /\ net.error.code = StatusCode(net.answer.status)
    /\ net.error.retryable = ERROR_CODES[StatusCode(net.answer.status)].retryable

\* C12: when a catch of getProductById or getProducts finds the signal
\* signaled, the error the call throws has code REQUEST_CANCELLED and is not
\* retryable.
C12_CancellationRaisedAsCancelled ==
  (net.pc = "raised" /\ net.cancelled) =>
    (net.error.code = "REQUEST_CANCELLED" /\ ~net.error.retryable)

\* C13: when the server answers getProductById with 304 and no body, the
\* transport hands the response over and getProductById returns the
\* not-modified result with the validators of the response.
C13_NotModifiedReturned ==
  (ById /\ ~SignalAborted(net) /\ net.answer.given /\ net.answer.status = 304
        /\ ~net.answer.hasBody) =>
    /\ net.transport = "fulfilled"
    /\ net.pc = "returned"
    /\ net.result = NotModified(ResponseHeaders(FetchedId, TRUE))

\* C14: getProductById called with a valid id, no retries option and no
\* signal has sent at least one request and made at most three attempts
\* when it returns or throws.
C14_DefaultRetriesIsTwo ==
  (ById /\ ValidProductId(net.id) /\ net.retries = Undefined
        /\ net.signal = "none" /\ CallEnded) =>
    (net.sends >= 1 /\ net.attempt + 1 <= 3)

\* C15: getProductById called with an id that is not a non-empty string
\* throws VALIDATION_ERROR (status 400) and sends no request.
C15_InvalidIdFailsFast ==
  (ById /\ ~(net.id.t = "string" /\ net.id.v # << >>) /\ net.pc # "called") =>
    /\ net.pc = "raised"
    /\ net.error.code = "VALIDATION_ERROR"
    /\ net.error.status = 400
    /\ net.sends = 0
    /\ net.transport = "idle"

\* an id that is a number was refused
C15_Witness ==
  /\ ById /\ net.id = Num(123000)
  /\ net.pc = "raised" /\ net.error.code = "VALIDATION_ERROR"

\* the indices (from 0) of the elements that fail normalization
FailingIndices(data) == {i - 1 : i \in {j \in 1..Len(data) : ~Transformable(data[j])}}

\* the per-item error entries of a returned value
ErrorEntries(result) ==
  IF result.value.errors.t = "object" THEN result.value.errors.v ELSE << >>

\* K - M records, each transformable element's record among them, and M
\* entries, one for each failing index in rising order, with the id
RecordsAndEntries(c) ==
  LET products == c.result.value.products
      entries == ErrorEntries(c.result)
      failing == FailingIndices(c.data)
  IN /\ Len(products) = Len(c.data) - Cardinality(failing)
     /\ \A i \in 1..Len(c.data) :
          Transformable(c.data[i]) =>
            \E j \in 1..Len(products) :
              products[j] = transformProductResponse(c.data[i].fields)
     /\ Len(entries) = Cardinality(failing)
     /\ {entries[j].index : j \in 1..Len(entries)} = failing
     /\ \A j \in 1..Len(entries) :
          /\ j > 1 => entries[j - 1].index < entries[j].index
          /\ entries[j].productId = ProductIdOf(c.data[entries[j].index + 1])

ListReturned == net.fn = "getProducts" /\ net.pc = "returned"

SendDue ==
  \/ net.pc \in {"transportDelay", "attemptDelay"}
  \/ net.pc = "called" /\ ValidProductId(net.id) /\ LoopRuns(0, Retries(net))

\* C17: with a token that is signaled before a send, or during a wait of
\* the interceptor, the transport sends nothing more, does not retry, and
\* the call ends with the cancellation; a pending send whose token is
\* signaled ends the same way.
C17_SignaledTokenStopsTransport ==
  [][/\ (TokenSupplied(net) /\ SignalAborted(net) /\ SendDue /\ net' # net) =>
          /\ net'.sends = net.sends
          /\ net'.retryCount <= net.retryCount
          /\ net'.transport = "cancelled"
          /\ net'.pc = "raised"
     /\ (TokenSupplied(net) /\ net.pc = "wire" /\ net.signal = "live"
           /\ net'.signal = "aborted") =>
          /\ net'.sends = net.sends
          /\ net'.retryCount <= net.retryCount
          /\ net'.transport = "cancelled"
          /\ net'.pc = "raised"]_vars

\* the token was signaled during a wait of the interceptor and the call
\* ended with the cancellation
C17_Witness ==
  /\ net.abortedAt = "transportDelay"
  /\ net.transport = "cancelled"
  /\ net.pc = "raised"
  /\ net.sends >= 1

(***************************************************************************)
(* Properties of the response validator.                                   *)
(***************************************************************************)
\* the cases in which the validator is to fail
MustFail(response, requireCollection, allowEmpty) ==
  \/ ~response.present
  \/ ~response.hasData
  \/ IsNullish(response.data) /\ ~allowEmpty
  \/ requireCollection /\ ~IsNullish(response.data) /\ response.data.t # "array"
  \/ ~allowEmpty /\ response.data.t \in {"array", "object"} /\ response.data.v = 0

\* C21: validateResponse throws exactly when the response is absent, has no
\* data, has a null or undefined payload without allowEmpty, has a payload
\* that is not an array under requireArray, or has an empty array or empty
\* object with allowEmpty false; otherwise it returns the payload.
C21_ValidatorFailsExactlyWhenListed ==
  (net.fn = "validateResponse" /\ net.pc = "out") =>
    LET response == net.input.response
        requireCollection == Default(net.input.options.requireArray, FALSE)
        allowEmpty == Default(net.input.options.allowEmpty, TRUE)
    IN /\ net.out.kind = "thrown" <=>
            MustFail(response, requireCollection, allowEmpty)
       /\ net.out.kind = "returned" => net.out.value = response.data

(***************************************************************************)
(* SpecBoundary: the ErrorBoundary.  Its parent renders it again and again *)
(* with one of a few children; a child may throw while it renders.  net    *)
(* holds the boundary's state, the children prop, what the last commit     *)
(* shows, the calls of console.error and the number of render passes.      *)
(* React renders the children only when render() returns them, calls       *)
(* getDerivedStateFromError with what a descendant threw, renders again    *)
(* with the derived state and calls componentDidCatch after the commit.    *)
(***************************************************************************)
ChildrenProps == {"page", "other", "none"}
ThrownErrors == {PlainError("Test error"), PlainError("boom"), UndefinedError}
Fallback == "Something went wrong"

BoundaryState == [hasError |-> FALSE, error |-> Null]

getDerivedStateFromErrorDroppingFlag(error) == [hasError |-> FALSE, error |-> error]
getDerivedStateFromError(error) == [hasError |-> TRUE, error |-> error]

componentDidCatch(console, error) == Append(console, error)

render(st, children) == IF st.hasError THEN Fallback ELSE children

InitBoundary ==
  /\ InitNoPage
  /\ net = [pc |-> "boundary", state |-> BoundaryState, children |-> "page",
            shown |-> "nothing", threw |-> FALSE, console |-> << >>,
            renders |-> 0]

\* the parent renders the boundary; whatever render() returns renders
\* without throwing
RenderPass(children) ==
  /\ net.pc = "boundary"
  /\ net.renders < MaxRenders
  /\ net' = [net EXCEPT !.children = children,
                        !.shown = render(net.state, children),
                        !.renders = @ + 1]
  /\ UNCHANGED coordVars

\* the parent renders the boundary, render() returns the children and a
\* descendant throws error while it renders
DescendantThrows(children, error) ==
  /\ net.pc = "boundary"
  /\ net.renders < MaxRenders
  /\ render(net.state, children) = children
  /\ LET derived == getDerivedStateFromError(error)
     IN net' = [net EXCEPT !.children = children,
                           !.state = derived,
                           !.shown = render(derived, children),
                           !.threw = TRUE,
                           !.console = componentDidCatch(@, error),
                           !.renders = @ + 1]
  /\ UNCHANGED coordVars

NextBoundary ==
  \/ \E children \in ChildrenProps : RenderPass(children)
  \/ \E children \in ChildrenProps, error \in ThrownErrors :
       DescendantThrows(children, error)

SpecBoundary == InitBoundary /\ [][NextBoundary]_vars

(***************************************************************************)
(* Properties of the ErrorBoundary.                                        *)
(***************************************************************************)
\* C22: the boundary shows its children as long as no descendant has thrown
\* while rendering; when a descendant throws, the boundary logs the error
\* and shows the static fallback, and every later commit shows the fallback.
C22_FallbackForeverAfterThrow ==
  [][/\ ~net'.threw => net'.shown = net'.children
     /\ (~net.threw /\ net'.threw) =>
          /\ net'.shown = Fallback
          /\ Len(net'.console) = Len(net.console) + 1
          /\ net'.console[Len(net'.console)] = net'.state.error
     /\ net.threw => net'.threw /\ net'.shown = Fallback]_vars

C22_Witness ==
  /\ net.pc = "boundary"
  /\ net.threw
  /\ net.shown = Fallback
  /\ net.renders >= Len(net.console) + 3

(***************************************************************************)
(* Properties of the coordinator's transitions.                            *)
(***************************************************************************)
CoordinatorTimeout == 5000

\* the options fetchProduct passes to getProductById for the call f; the
\* click event that "Try Again" passes as abortSignal is no signal
CallOptions(f) ==
  [timeout |-> CoordinatorTimeout, retries |-> CoordinatorRetries,
   signal |-> f.src # "manual", etag |-> f.etag,
   lastModified |-> f.lastModified, cache |-> ~f.force]

\* the calls of getProductById the step makes
NewCalls == {f \in inflight' : f.tok > requestId}

\* the cache expires neither before nor after the step
NoExpiry ==
  /\ ~Expired(state.lastFetchTime, now)
  /\ ~Expired(state'.lastFetchTime, now')

\* the step makes exactly one call, for id, with timeout 5000, retries 2 and
\* a signal
OneCallFor(id) ==
  /\ requestId' = requestId + 1
  /\ \E f \in NewCalls :
       /\ NewCalls = {f}
       /\ f.id = id /\ f.tok = requestId' /\ ~f.aborted
       /\ CallOptions(f).timeout = 5000
       /\ CallOptions(f).retries = 2
       /\ CallOptions(f).signal

\* C23: the mount with an id makes one call for it; while the cache does not
\* expire, the arrival of its record makes no call, the change to another id
\* makes exactly one call for that id, the arrival of that record makes none
\* and shows the record of the second id, and no tick of the interval makes
\* one: two calls in total, each with timeout 5000, retries 2 and a signal.
C23_OneCallPerId ==
  /\ []((event.kind = "mount" /\ productId # "") =>
          /\ requestId = 1
          /\ \E f \in inflight :
               /\ inflight = {f}
               /\ f.id = productId /\ f.tok = 1 /\ ~f.aborted
               /\ CallOptions(f).timeout = 5000
               /\ CallOptions(f).retries = 2
               /\ CallOptions(f).signal)
  /\ [][NoExpiry =>
          /\ (Ran({"changeId"}) /\ Success /\ productId' # "")
               => OneCallFor(productId')
          /\ (Ran({"resolve"}) /\ mounted /\ event'.latest)
               => /\ requestId' = requestId
                  /\ Success'
                  /\ state'.product["id"] = Text(productId')
          /\ (Ran({"tick"}) /\ state.error = NoError)
               => requestId' = requestId]_vars

\* the record of "A" arrived, the id changed to "B", the record of "B"
\* arrived: two tokens, the validators of "A" closed over by the second fetch
C23_Witness ==
  /\ mounted
  /\ productId = "B"
  /\ requestId = 2
  /\ captured.etag = EtagFor("A")
  /\ event.kind = "resolve"
  /\ Success
  /\ state.product["id"] = Text("B")
  /\ inflight = {}
  /\ now = 1

\* the call that settled in the step
SettledCalls == inflight \ inflight'

\* the records getProductById may return for the call f
RecordsFor(f) ==
  {ProductData(RawRecordFor(f.id), ResponseHeaders(f.id, withValidators)) :
     withValidators \in BOOLEAN}

\* C24: when getProductById returns a record for the call bearing the latest
\* token of a mounted page, the page leaves Loading and holds that record
\* without an error, retryCount is 0, lastFetchTime is the time taken by that
\* fetch and the validators of the record are stored (the stored ones are
\* kept where the record has none); loading is set again only by the
\* revalidation of a fetch that took longer than cacheTimeout.  When
\* getProductById returns nothing, the page does not come to show a record.
C24_RecordArrivalGivesSuccess ==
  [][/\ (Ran({"resolve"}) /\ mounted /\ event'.latest) =>
          \E f \in SettledCalls :
            /\ f.tok = requestId
            /\ state.loading
            /\ state'.product \in RecordsFor(f)
            /\ state'.error = NoError
            /\ state'.retryCount = 0
            /\ state'.lastFetchTime = f.start
            /\ state'.etag = Or(state'.product["etag"], state.etag)
            /\ state'.lastModified =
                 Or(state'.product["lastModified"], state.lastModified)
            /\ \/ Success'
               \/ /\ Expired(f.start, now)
                  /\ requestId' = requestId + 1
                  /\ state'.loading
     /\ Ran({"resolveNull"}) =>
          /\ state' = state \/ ~Success'
          /\ (mounted /\ event'.latest) =>
                /\ ErrorShown'
                /\ state'.error = NotFoundMessage
                /\ state'.product = state.product]_vars

\* a record without validators arrived for the latest token of a page that
\* had stored the validators of an earlier record
C24_Witness ==
  /\ mounted
  /\ productId = "A"
  /\ event.kind = "resolve"
  /\ event.latest
  /\ Success
  /\ requestId >= 2
  /\ state.retryCount = 0
  /\ state.lastFetchTime = now
  /\ state.product["etag"] = Undefined
  /\ state.etag = EtagFor("A")

\* C25: when the call bearing the latest token of a mounted page fails with
\* an error that is not a cancellation, the page goes from Loading to Error,
\* retryCount grows by exactly one and the message of the error is stored;
\* a cancellation changes neither retryCount nor the stored message.
C25_FailureGivesError ==
  [][/\ (Ran({"reject"}) /\ mounted /\ event'.latest) =>
          /\ state.loading
          /\ ErrorShown'
          /\ state'.retryCount = state.retryCount + 1
          /\ state'.error = UnknownErrorMessage
          /\ requestId' = requestId
     /\ Ran({"cancelled"}) =>
          /\ state'.retryCount = state.retryCount
          /\ state'.error = state.error
          /\ state'.loading = state.loading]_vars

\* the second failure in a row of the latest call
C25_Witness ==
  /\ mounted
  /\ event.kind = "reject"
  /\ event.latest
  /\ ErrorShown
  /\ state.error = UnknownErrorMessage
  /\ state.retryCount = 2
  /\ retryTimer.pending

\* C26: requestIdRef.current never decreases; every call of getProductById a
\* step makes bears a token above every token minted before, whichever
\* handler made it (initial fetch, change of id, revalidation, automatic or
\* manual retry); no two pending calls bear the same token.
C26_TokensStrictlyIncrease ==
  /\ [](\A f, g \in inflight : f.tok = g.tok => f = g)
  /\ [](\A f \in inflight : f.tok >= 1 /\ f.tok <= requestId)
  /\ [][/\ requestId' >= requestId
        /\ \A f \in inflight' \ inflight :
             \/ f.tok > requestId
             \/ \E g \in inflight : g.tok = f.tok /\ f = [g EXCEPT !.aborted = TRUE]
        /\ (Ran({"changeId", "retryTimer", "manualRetry"}) /\ mounted)
             => requestId' > requestId]_vars

\* the id changed while the fourth token was the latest
C26_Witness ==
  /\ mounted
  /\ event.kind = "changeId"
  /\ requestId = MaxRequests - 1
  /\ \E f \in inflight : f.tok = requestId /\ f.src = "init"
  /\ \E f \in inflight : f.tok < requestId /\ f.src = "manual"

\* the timeout the retry effect is to set in Error with retryCount failures
ScheduledRetry(retryCount) ==
  [pending |-> TRUE,
   delay |-> CASE retryCount = 0 -> 1000
               [] retryCount = 1 -> 2000
               [] retryCount = 2 -> 4000]

\* C27: when a mounted page comes to show an error with retryCount < 3, one
\* timeout is pending, set to min(1000 * 2^retryCount, 5000) ms for the
\* retryCount of that state: 1000, 2000, 4000 ms; when the timeout fires,
\* exactly one token is minted.
C27_RetryScheduledWithBackoff ==
  /\ []((event.kind = "mount" /\ ErrorShown) => retryTimer = ScheduledRetry(0))
  /\ []((mounted /\ retryTimer.pending) =>
          /\ state.error # NoError
          /\ state.retryCount < 3
          /\ retryTimer = ScheduledRetry(state.retryCount))
  /\ [][/\ (~ErrorShown /\ ErrorShown' /\ mounted' /\ state'.retryCount < 3)
             => retryTimer' = ScheduledRetry(state'.retryCount)
        /\ Ran({"retryTimer"})
             => /\ retryTimer.pending
                /\ requestId' = requestId + 1]_vars

\* the second failure in a row is shown and the retry is set to 4000 ms
C27_Witness ==
  /\ mounted
  /\ ErrorShown
  /\ event.kind \in {"reject", "resolveNull"}
  /\ state.retryCount = 2
  /\ retryTimer = [pending |-> TRUE, delay |-> 4000]

(***************************************************************************)
(* Properties of the attempt loop and of the transport's retries.          *)
(***************************************************************************)
\* the entry of ERROR_CODES the error classifier chooses for an error
Classification(error) == ERROR_CODES[ErrorCodeOf(error)]

\* the interceptor surfaces the failure of the pending send to the loop
Surfaces ==
  /\ net.pc = "wire"
  /\ ~ValidateStatus(NextStatus)
  /\ ~TransportRetries(ErrorOfStatus(NextStatus), net.retryCount)

\* C28: a failure that the error classifier calls not retryable ends
\* getProductById after that attempt, without a wait; the loop waits, for
\* retryDelay * 2^attempt ms, and makes another attempt only after a failure
\* classified retryable while attempts remain.
C28_OnlyRetryableFailuresWait ==
  [][Surfaces =>
       /\ ~Classification(ErrorOfStatus(NextStatus)).retryable
            => net'.pc = "done"
       /\ net'.pc = "attemptDelay"
            => /\ Classification(ErrorOfStatus(NextStatus)).retryable
               /\ net.attempt < CoordinatorRetries
               /\ net'.delay = TransportRetryDelay * Pow2(net.attempt)]_vars

\* the failures after which the transport may send again: no answer, or one
\* of these statuses
TransientStatuses == {0, 408, 429, 500, 502, 503, 504}

\* the server refuses the pending send with the given status
Refused(status) ==
  /\ net.pc = "wire"
  /\ net'.answer.given
  /\ net'.answer.status = status
  /\ ~Accepts(net.fn, status)

\* C29: for one api.get the interceptor waits and sends again only after a
\* send that got no answer or an answer with status 408, 429, 500, 502, 503
\* or 504; it does so at most 3 times, so that one api.get makes at most 4
\* sends; a refusal with any other status (404) reaches the caller at once,
\* with no further send.
C29_ResendOnlyAfterTransientFailure ==
  /\ [](net.retryCount <= 3 /\ net.sends <= 4 * (net.attempt + 1))
  /\ [][/\ (net'.pc = "transportDelay" /\ net.pc # "transportDelay") =>
             /\ \E status \in TransientStatuses : Refused(status)
             /\ net.retryCount < 3
             /\ net'.retryCount = net.retryCount + 1
        /\ net'.sends > net.sends =>
             /\ net'.sends = net.sends + 1
             /\ net.pc \in {"called", "transportDelay", "attemptDelay"}
        /\ \A status \in ServiceStatuses \ TransientStatuses :
             Refused(status) =>
               /\ net'.transport = "rejected"
               /\ net'.pc \in {"raised", "attemptDelay"}
               /\ net'.sends = net.sends
               /\ net'.retryCount = net.retryCount]_vars

\* the fourth send of one api.get failed like the three before it and the
\* failure reached the caller
C29_Witness ==
  /\ net.fn = "getProducts"
  /\ net.pc = "raised"
  /\ net.transport = "rejected"
  /\ net.answer.status = 500
  /\ net.retryCount = 3
  /\ net.sends = 4

\* C30: the wait before the k-th re-send of the transport (k = 1, 2, 3, the
\* counter starting at 0) is 1000 * 2^(k-1) ms plus a jitter of 0 to 100 ms:
\* within 1000..1100, 2000..2100 and 4000..4100 ms.
C30_TransportWaitsDouble ==
  net.pc = "transportDelay" =>
    /\ net.retryCount \in {1, 2, 3}
    /\ net.retryCount = 1 => (net.delay >= 1000 /\ net.delay <= 1100)
    /\ net.retryCount = 2 => (net.delay >= 2000 /\ net.delay <= 2100)
    /\ net.retryCount = 3 => (net.delay >= 4000 /\ net.delay <= 4100)

\* the transport waits before its third re-send, with the largest jitter
C30_Witness ==
  /\ net.pc = "transportDelay"
  /\ net.retryCount = 3
  /\ net.sends = 3
  /\ net.delay = 4099

(***************************************************************************)
(* Properties of the error classifier.                                     *)
(***************************************************************************)
\* handleApiError was applied to an error
Classified == net.fn = "handleApiError" /\ net.pc = "out"

\* the codes an error carrying a response may get
StatusCodes ==
  {"VALIDATION_ERROR", "UNAUTHORIZED", "FORBIDDEN", "NOT_FOUND",
   "TRANSFORM_ERROR", "RATE_LIMIT", "SERVER_ERROR", "UNKNOWN_ERROR"}

\* C31: handleApiError takes the first rule that matches, in the order:
\* raised by the normalizer (TRANSFORM_ERROR), coded ECONNABORTED (TIMEOUT),
\* carrying a response (a code chosen by status), carrying a request
\* (NETWORK_ERROR), anything else (UNKNOWN_ERROR).
C31_FirstMatchingRuleWins ==
  Classified =>
    LET error == net.input
        code == net.out.error.code
    IN /\ net.out.kind = "thrown" /\ net.out.error.name = "APIError"
       /\ IF error.name = "undefined" THEN code = "UNKNOWN_ERROR"
          ELSE IF error.name = "TransformError" THEN code = "TRANSFORM_ERROR"
          ELSE IF error.code = "ECONNABORTED" THEN code = "TIMEOUT"
          ELSE IF error.hasResponse THEN code \in StatusCodes
          ELSE IF error.hasRequest THEN code = "NETWORK_ERROR"
          ELSE code = "UNKNOWN_ERROR"

\* a timeout-coded error that also carries a response with status 404 and a
\* request was classified
C31_Witness ==
  /\ Classified
  /\ net.input.name = "AxiosError"
  /\ net.input.code = "ECONNABORTED"
  /\ net.input.hasResponse /\ net.input.status = 404
  /\ net.input.hasRequest
  /\ net.out.error.code = "TIMEOUT"

\* the code claimed for a status
CodeOfStatus(status) ==
  CASE status = 400 -> "VALIDATION_ERROR"
    [] status = 401 -> "UNAUTHORIZED"
    [] status = 403 -> "FORBIDDEN"
    [] status = 404 -> "NOT_FOUND"
    [] status = 422 -> "TRANSFORM_ERROR"
    [] status = 429 -> "RATE_LIMIT"
    [] status >= 500 /\ status <= 599 -> "SERVER_ERROR"
    [] OTHER -> "UNKNOWN_ERROR"

\* the rule for errors carrying a response decided
ByStatus ==
  /\ Classified
  /\ net.input.name \notin {"undefined", "TransformError"}
  /\ net.input.code # "ECONNABORTED"
  /\ net.input.hasResponse

\* C32: an error carrying a response gets VALIDATION_ERROR for 400,
\* UNAUTHORIZED for 401, FORBIDDEN for 403, NOT_FOUND for 404, TRANSFORM_ERROR
\* for 422, RATE_LIMIT for 429, SERVER_ERROR for 500 to 599 and UNKNOWN_ERROR
\* for any other status, and the retryable flag of that entry of ERROR_CODES.
C32_StatusDecidesCode ==
  ByStatus =>
    /\ net.out.error.code = CodeOfStatus(net.input.status)
    /\ net.out.error.retryable = ERROR_CODES[net.out.error.code].retryable

(***************************************************************************)
(* Properties of the defaults of the normalizer.                           *)
(***************************************************************************)
\* the default claimed for a field
DefaultOf(key) ==
  CASE key = "id" -> Text("")
    [] key = "title" -> Text("Untitled Product")
    [] key = "description" -> Text("No description available")
    [] key = "image" -> Null
    [] key = "category" -> Text("Uncategorized")

\* C33: id, title, description, image and category of the record returned
\* are "", "Untitled Product", "No description available", null and
\* "Uncategorized" when the raw field is absent, null or undefined, and the
\* raw value, an empty string included, in every other case.
C33_DefaultsOnlyForNullish ==
  (net.fn = "transformProductResponse" /\ net.pc = "out") =>
    \A key \in DefaultedKeys :
      net.out[key] =
        IF key \notin DOMAIN net.input \/ net.input[key] \in {Null, Undefined}
        THEN DefaultOf(key)
        ELSE net.input[key]

\* a raw record with an empty title, a category of 0, an image of false, a
\* description of null and no id was normalized
C33_Witness ==
  /\ net.fn = "transformProductResponse" /\ net.pc = "out"
  /\ DOMAIN net.input = DefaultedKeys \ {"id"}
  /\ net.input["title"] = Text("") /\ net.out["title"] = Text("")
  /\ net.input["category"] = Num(0) /\ net.out["category"] = Num(0)
  /\ net.input["image"] = Bool(FALSE) /\ net.out["image"] = Bool(FALSE)
  /\ net.input["description"] = Null
  /\ net.out["description"] = Text("No description available")
  /\ net.out["id"] = Text("")

(***************************************************************************)
(* Properties of the coordinator's pending fetches.                        *)
(***************************************************************************)
\* the page shows the loading state
Loading == state.loading

\* a call bearing the latest token is pending and its signal is not aborted
LiveFetch == \E f \in inflight : f.tok = requestId /\ ~f.aborted

\* C34: while a mounted page with a productId shows the loading state, the
\* call bearing the latest token is pending with a signal that is not
\* aborted; the fetch of the retry timeout is not aborted by the commit that
\* its own setState causes.
C34_LoadingHasLiveFetch ==
  (mounted /\ productId # "" /\ Loading) => LiveFetch

\* C35: on a page that stays mounted with the same productId, whose calls
\* all settle, every loading state is followed by a record or an error.
C35_LoadingEnds ==
  (mounted /\ productId # "" /\ Loading) ~> (Success \/ ErrorShown)

C37_ValidatorsOfTheSameId ==
  [][\A f \in NewCalls :
       /\ \/ f.etag = Null
          \/ f.etag = state.etag /\ f.etag = EtagFor(f.id)
       /\ \/ f.lastModified = Null
          \/ /\ f.lastModified = state.lastModified
             /\ f.lastModified = LastModifiedFor(f.id)]_vars

(***************************************************************************)
(* Properties of the sends of one fetch.                                   *)
(***************************************************************************)
\* every request is answered with HTTP 500
C38_Scenario ==
  /\ net.tail = 500
  /\ \A i \in DOMAIN net.script0 : net.script0[i] = 500

\* C38: when every request is answered with HTTP 500, the fetch of the page
\* (retries 2) ends in Error after exactly 12 sends: 3 attempts of 4 sends
\* each, the counter of the interceptor starting at 0 in every attempt.
C38_TwelveSendsBeforeError ==
  C38_Scenario =>
    /\ net.sends <= 12
    /\ net.sends = 4 * net.attempt + net.retryCount
                     + (IF net.pc = "transportDelay" THEN 0 ELSE 1)
    /\ net.pc = "done" => (net.sends = 12 /\ ErrorShown)
    /\ net.pc # "done" => (state.loading /\ state.error = NoError)

\* the twelfth send was answered with 500 and the page shows the error
C38_Witness ==
  /\ C38_Scenario
  /\ net.pc = "done"
  /\ net.sends = 12
  /\ net.attempt = 2
  /\ net.retryCount = 3
  /\ ErrorShown
  /\ event.kind = "reject"

(***************************************************************************)
(* Properties of the retry button.                                         *)
(***************************************************************************)
\* C39: the retry button pressed while the timeout of the retry effect is
\* pending, on a page with a productId, clears that timeout and makes exactly
\* one call, which is live and puts the page in the loading state; a timeout
\* is pending only while the page shows an error, so none fires during the
\* fetch of the button.
C39_ManualRetryClearsTimer ==
  /\ [][(Ran({"manualRetry"}) /\ retryTimer.pending /\ productId # "") =>
          /\ ~retryTimer'.pending
          /\ requestId' = requestId + 1
          /\ Cardinality(NewCalls) = 1
          /\ \A f \in NewCalls : f.src = "manual" /\ ~f.aborted
          /\ state'.loading /\ state'.error = NoError]_vars
  /\ [][Ran({"retryTimer"}) => (retryTimer.pending /\ ErrorShown)]_vars
  /\ [](retryTimer.pending => (mounted /\ state.error # NoError))

\* C39 as stated for every page: the retry button pressed while the timeout
\* is pending clears it and makes exactly one call.  A page without a
\* productId shows 'Product ID is required' with the button and a pending
\* timeout; there the batched updates of fetchProduct leave state.error as
\* it was, the retry effect does not run again and the timeout stays.
C39_EveryManualRetryClearsTimer ==
  [][(Ran({"manualRetry"}) /\ retryTimer.pending) =>
       (~retryTimer'.pending /\ Cardinality(NewCalls) = 1)]_vars

\* the button was pressed in Error: its call is pending and no timeout is set
C39_Witness ==
  /\ event.kind = "manualRetry"
  /\ productId # ""
  /\ state.retryCount > 0
  /\ state.loading
  /\ ~retryTimer.pending
  /\ \E f \in inflight : f.tok = requestId /\ f.src = "manual" /\ ~f.aborted

(***************************************************************************)
(* Properties of the rendered price.                                       *)
(***************************************************************************)
\* C40: when the page shows the record fetched for a raw record, the price
\* it renders is the price transformPrice gives for the raw price (a raw
\* price 99.99 is shown as 99.99, not as 0.00).
C40_RenderedPriceIsCanonicalPrice ==
  (Success /\ "price" \in DOMAIN state.product) =>
    /\ state.product["price"] = Str(transformPrice(net.rawPrice))
    /\ RenderedPrice(state.product) = transformPrice(net.rawPrice)

====
